---------------------------- MODULE Spec2Model ----------------------------
(***************************************************************************)
(* A model of the space-game simulation (src/main.ts): the SpaceGame       *)
(* frame loop and spawn timer, the Player with its PlayerWeapon and        *)
(* PlayerWeaponShot collection, the Enemy collection and the HitBox        *)
(* overlap test.                                                           *)
(*                                                                         *)
(* Lengths.  The source computes with halves of odd pixel counts (15 / 2,  *)
(* 25 / 2), so every length of the model is kept in half-pixels: Px(n) is  *)
(* n pixels.  With that, each "/ 2" of the source is an exact \div 2.      *)
(***************************************************************************)
EXTENDS Integers, Sequences, FiniteSets, TLC

Px(n) == 2 * n

(* ---------------------------- bounds ----------------------------------- *)
\* The canvas (window.innerWidth / 2, window.innerHeight / 2), in pixels.
CanvasW == 90
CanvasH == 108
\* Frames that run draw + update, spawn events and shots fired in one run.
MaxTicks == 3
MaxSpawns == 1
MaxShots == 1
\* The same budgets of the runs that empty the magazine (SpecFire).
FireTicks == 2
FireSpawns == 1
FireShots == 4
\* The same budgets of the runs that fill the adversary collection (SpecCap).
CapTicks == 2
CapSpawns == 21
\* The same budgets of the runs in which one projectile pass meets several
\* projectiles and several adversaries (SpecPass).
PassTicks == 2
PassSpawns == 3
PassShots == 2
\* Corners and sides of the boxes handed to HitBox.collision (SpecBox).
BoxMax == 2

(* ------------------------ program constants ---------------------------- *)
PlayerW == 60
PlayerH == 60
WeaponH == 15
ShotSize == 5
ShotSpeed == 3
EnemySize == 25
EnemySpeed == 1
StartAmmo == 3
FullAmmo == 3
EnemyCap == 20

Directions == {"Up", "Left", "Down", "Right"}

VARIABLES
    started,       \* start() has been called (the interval timer exists)
    framePending,  \* a requestAnimationFrame callback is scheduled
    gameOver,      \* SpaceGame._gameOver
    enemies,       \* SpaceGame._enemies, newest first
    player,        \* Player._x, _y, _w, _h
    playerHitbox,  \* Player._hitbox.options
    direction,     \* Player._direction
    weapon,        \* PlayerWeapon._x, _y, _w, _h
    weaponHitbox,  \* PlayerWeapon._hitbox.options
    ammo,          \* PlayerWeapon._ammo
    shots,         \* PlayerWeapon._shots, newest first
    nextEnemy,     \* number of Enemy objects constructed so far
    nextShot,      \* number of PlayerWeaponShot objects constructed so far
    ticks,         \* number of animate() calls that ran draw() and update()
    probe          \* one call a.collision(b) made on two boxes, with its results

vars == <<started, framePending, gameOver, enemies, player, playerHitbox,
          direction, weapon, weaponHitbox, ammo, shots, nextEnemy, nextShot,
          ticks, probe>>

(* --------------------------- sequences --------------------------------- *)
\* Array.prototype.unshift(e)
Unshift(s, e) == <<e>> \o s

\* Array.prototype.pop()
Pop(s) == IF Len(s) = 0 THEN s ELSE SubSeq(s, 1, Len(s) - 1)

\* Array.prototype.splice(i, 1), i counted from 1; beyond the end it removes nothing
Splice(s, i) ==
    IF i < 1 \/ i > Len(s) THEN s
    ELSE SubSeq(s, 1, i - 1) \o SubSeq(s, i + 1, Len(s))

(* ----------------------------- HitBox ---------------------------------- *)
Box(x, y, w, h) == [x |-> x, y |-> y, w |-> w, h |-> h]

\* HitBox.collision
CollisionTouching(a, b) ==
    /\ a.x <= b.x + b.w
    /\ a.x + a.w > b.x
    /\ a.y < b.y + b.h
    /\ a.y + a.h > b.y

Collision(a, b) ==
    /\ a.x < b.x + b.w
    /\ a.x + a.w > b.x
    /\ a.y < b.y + b.h
    /\ a.y + a.h > b.y

(* ----------------------------- Weapon ---------------------------------- *)
\* PlayerWeapon._defaultWidth = playerWidth / 2, PlayerWeapon._defaultHeight
DefaultWidth == Px(PlayerW) \div 2
DefaultHeight == Px(WeaponH)

\* The rectangle Player.handleDirectionChange hands to adjustWeapon
WeaponRectDownInside(p, dir) ==
    CASE dir = "Up" ->
           Box(p.x + DefaultWidth - DefaultHeight \div 2, p.y - p.h \div 2,
               DefaultHeight, p.h \div 2)
      [] dir = "Left" ->
           Box(p.x - p.w \div 2, p.y + DefaultWidth - DefaultHeight \div 2,
               p.w \div 2, DefaultHeight)
      [] dir = "Down" ->
           Box(p.x + DefaultWidth - DefaultHeight \div 2, p.y + p.h \div 2,
               DefaultHeight, p.h \div 2)
      [] dir = "Right" ->
           Box(p.x + p.w, p.y + DefaultWidth - DefaultHeight \div 2,
               p.w \div 2, DefaultHeight)

WeaponRect(p, dir) ==
    CASE dir = "Up" ->
           Box(p.x + DefaultWidth - DefaultHeight \div 2, p.y - p.h \div 2,
               DefaultHeight, p.h \div 2)
      [] dir = "Left" ->
           Box(p.x - p.w \div 2, p.y + DefaultWidth - DefaultHeight \div 2,
               p.w \div 2, DefaultHeight)
      [] dir = "Down" ->
           Box(p.x + DefaultWidth - DefaultHeight \div 2, p.y + p.h,
               DefaultHeight, p.h \div 2)
      [] dir = "Right" ->
           Box(p.x + p.w, p.y + DefaultWidth - DefaultHeight \div 2,
               p.w \div 2, DefaultHeight)

(* ------------------------- PlayerWeaponShot ---------------------------- *)
\* new PlayerWeaponShot({x, y, direction, defaultWeaponWidth})
NewShot(id, x, y, dir) ==
    [id |-> id, x |-> x, y |-> y, direction |-> dir,
     hitbox |-> Box(x, y, Px(ShotSize), Px(ShotSize))]

\* PlayerWeaponShot.draw: the hit box follows the drawn circle
ShotDraw(s) ==
    LET size == Px(ShotSize)
        hx == CASE s.direction = "Up" -> s.x + size + size \div 2 - size
                [] s.direction = "Left" -> s.x - size
                [] s.direction = "Down" -> s.x + size + size \div 2 - size
                [] s.direction = "Right" -> s.x + DefaultWidth - size
        hy == CASE s.direction = "Up" -> s.y - size
                [] s.direction = "Left" -> s.y + size + size \div 2 - size
                [] s.direction = "Down" -> s.y + DefaultWidth - size
                [] s.direction = "Right" -> s.y + size + size \div 2 - size
    IN [s EXCEPT !.hitbox.x = hx, !.hitbox.y = hy]

\* PlayerWeaponShot.update
ShotUpdateFacing(s) ==
    CASE direction = "Up" -> [s EXCEPT !.y = @ - Px(ShotSpeed)]
      [] direction = "Left" -> [s EXCEPT !.x = @ - Px(ShotSpeed)]
      [] direction = "Down" -> [s EXCEPT !.y = @ + Px(ShotSpeed)]
      [] direction = "Right" -> [s EXCEPT !.x = @ + Px(ShotSpeed)]

ShotUpdate(s) ==
    CASE s.direction = "Up" -> [s EXCEPT !.y = @ - Px(ShotSpeed)]
      [] s.direction = "Left" -> [s EXCEPT !.x = @ - Px(ShotSpeed)]
      [] s.direction = "Down" -> [s EXCEPT !.y = @ + Px(ShotSpeed)]
      [] s.direction = "Right" -> [s EXCEPT !.x = @ + Px(ShotSpeed)]

(* ------------------------------ Enemy ---------------------------------- *)
\* new Enemy(...): position (0, 0), hit box (0, 0, 25, 25), a random direction
NewEnemy(id, dir) ==
    [id |-> id, direction |-> dir, x |-> 0, y |-> 0,
     hitbox |-> Box(0, 0, Px(EnemySize), Px(EnemySize))]

\* Enemy.draw: the hit box follows the drawn square
EnemyDraw(e) ==
    LET size == Px(EnemySize)
        cw == Px(CanvasW)
        ch == Px(CanvasH)
        hx == CASE e.direction = "Up" -> e.x + cw \div 2 - size + size \div 2
                [] e.direction = "Left" -> e.x + cw - size + size \div 2
                [] e.direction = "Down" -> e.x + cw \div 2 - size + size \div 2
                [] e.direction = "Right" -> e.x + 0 - size + size \div 2
        hy == CASE e.direction = "Up" -> e.y + ch - size
                [] e.direction = "Left" -> e.y + ch \div 2 - size + size \div 2
                [] e.direction = "Down" -> e.y + 0 - size
                [] e.direction = "Right" -> e.y + ch \div 2 - size + size \div 2
    IN [e EXCEPT !.hitbox.x = hx, !.hitbox.y = hy]

\* Enemy.update
EnemyUpdateUpGoesDown(e) ==
    CASE e.direction = "Up" -> [e EXCEPT !.y = @ + Px(EnemySpeed)]
      [] e.direction = "Left" -> [e EXCEPT !.x = @ - Px(EnemySpeed)]
      [] e.direction = "Down" -> [e EXCEPT !.y = @ + Px(EnemySpeed)]
      [] e.direction = "Right" -> [e EXCEPT !.x = @ + Px(EnemySpeed)]

EnemyUpdate(e) ==
    CASE e.direction = "Up" -> [e EXCEPT !.y = @ - Px(EnemySpeed)]
      [] e.direction = "Left" -> [e EXCEPT !.x = @ - Px(EnemySpeed)]
      [] e.direction = "Down" -> [e EXCEPT !.y = @ + Px(EnemySpeed)]
      [] e.direction = "Right" -> [e EXCEPT !.x = @ + Px(EnemySpeed)]

(* ------------------------ collision passes ----------------------------- *)
\* The inner loop of handleShotEnemyCollision: `shot` was read before the loop
\* and is not read again, i is the outer index, j runs over the adversaries
\* as the splices leave them.  r is <<shots, enemies>>.
RECURSIVE ShotEnemyInnerKeepsShot(_, _, _, _)
ShotEnemyInnerKeepsShot(shot, i, j, r) ==
    IF j > Len(r[2]) THEN r
    ELSE IF Collision(shot.hitbox, r[2][j].hitbox)
         THEN ShotEnemyInnerKeepsShot(shot, i, j + 1, <<r[1], Splice(r[2], j)>>)
         ELSE ShotEnemyInnerKeepsShot(shot, i, j + 1, r)

RECURSIVE ShotEnemyInner(_, _, _, _)
ShotEnemyInner(shot, i, j, r) ==
    IF j > Len(r[2]) THEN r
    ELSE IF Collision(shot.hitbox, r[2][j].hitbox)
         THEN ShotEnemyInner(shot, i, j + 1, <<Splice(r[1], i), Splice(r[2], j)>>)
         ELSE ShotEnemyInner(shot, i, j + 1, r)

RECURSIVE ShotEnemyOuter(_, _)
ShotEnemyOuter(i, r) ==
    IF i > Len(r[1]) THEN r
    ELSE ShotEnemyOuter(i + 1, ShotEnemyInner(r[1][i], i, 1, r))

\* SpaceGame.handleShotEnemyCollision, from <<shots, enemies>> to <<shots, enemies>>
HandleShotEnemyCollision(S, E) == ShotEnemyOuter(1, <<S, E>>)

\* SpaceGame.handlePlayerEnemyCollision: the new value of _gameOver
HandlePlayerEnemyCollisionCopied(E, over) ==
    IF \E i \in 1..Len(E) : Collision(weaponHitbox, E[i].hitbox) THEN TRUE ELSE over

HandlePlayerEnemyCollision(E, over) ==
    IF \E i \in 1..Len(E) : Collision(playerHitbox, E[i].hitbox) THEN TRUE ELSE over

\* SpaceGame.handlePlayerWeaponEnemyCollision: the new value of _gameOver
HandlePlayerWeaponEnemyCollision(E, over) ==
    IF \E i \in 1..Len(E) : Collision(weaponHitbox, E[i].hitbox) THEN TRUE ELSE over

(* --------------------------- the frame --------------------------------- *)
\* draw() then the two update loops of update(): the collections as the
\* collision passes meet them
DrawnShots == [i \in 1..Len(shots) |-> ShotDraw(shots[i])]
DrawnEnemies == [i \in 1..Len(enemies) |-> EnemyDraw(enemies[i])]
MovedShots == [i \in 1..Len(shots) |-> ShotUpdate(DrawnShots[i])]
MovedEnemiesDrawnLast == [i \in 1..Len(enemies) |-> EnemyDraw(EnemyUpdate(enemies[i]))]
MovedEnemies == [i \in 1..Len(enemies) |-> EnemyUpdate(DrawnEnemies[i])]

\* The part of animate() below its guard: draw(), update(), requestAnimationFrame
DrawAndUpdatePlayerPassesFirst ==
    LET r == HandleShotEnemyCollision(MovedShots, MovedEnemies)
    IN /\ shots' = r[1]
       /\ enemies' = r[2]
       /\ gameOver' = HandlePlayerWeaponEnemyCollision(MovedEnemies,
                          HandlePlayerEnemyCollision(MovedEnemies, gameOver))
       /\ framePending' = TRUE
       /\ ticks' = ticks + 1

DrawAndUpdate ==
    LET r == HandleShotEnemyCollision(MovedShots, MovedEnemies)
    IN /\ shots' = r[1]
       /\ enemies' = r[2]
       /\ gameOver' = HandlePlayerWeaponEnemyCollision(r[2],
                          HandlePlayerEnemyCollision(r[2], gameOver))
       /\ framePending' = TRUE
       /\ ticks' = ticks + 1

(* ---------------------------- actions ---------------------------------- *)
\* SpaceGame.start, called once on DOMContentLoaded
Start ==
    /\ ~started
    /\ started' = TRUE
    /\ DrawAndUpdate
    /\ UNCHANGED <<player, playerHitbox, direction, weapon, weaponHitbox, ammo,
                   nextEnemy, nextShot>>
    /\ UNCHANGED probe

\* SpaceGame.animate as the frame callback, game running
AnimateRunUnguarded ==
    /\ framePending
    /\ DrawAndUpdate
    /\ UNCHANGED <<started, player, playerHitbox, direction, weapon, weaponHitbox,
                   ammo, nextEnemy, nextShot>>
    /\ UNCHANGED probe

AnimateRun ==
    /\ framePending
    /\ ~gameOver
    /\ DrawAndUpdate
    /\ UNCHANGED <<started, player, playerHitbox, direction, weapon, weaponHitbox,
                   ammo, nextEnemy, nextShot>>
    /\ UNCHANGED probe

\* SpaceGame.animate as the frame callback, game over: no new frame is requested
AnimateHalt ==
    /\ framePending
    /\ gameOver
    /\ framePending' = FALSE
    /\ UNCHANGED <<started, gameOver, enemies, player, playerHitbox, direction,
                   weapon, weaponHitbox, ammo, shots, nextEnemy, nextShot, ticks>>
    /\ UNCHANGED probe

\* The setInterval callback of enemiesSpawnLoop; dir is randomDirection()
SpawnedEnemiesNoPop(E, id, dir) == Unshift(E, NewEnemy(id, dir))

SpawnedEnemies(E, id, dir) ==
    LET added == Unshift(E, NewEnemy(id, dir))
    IN IF Len(added) >= EnemyCap THEN Pop(added) ELSE added

SpawnEnemyCancelled(dir) ==
    /\ started
    /\ ~gameOver
    /\ enemies' = SpawnedEnemies(enemies, nextEnemy + 1, dir)
    /\ nextEnemy' = nextEnemy + 1
    /\ UNCHANGED <<started, framePending, gameOver, player, playerHitbox, direction,
                   weapon, weaponHitbox, ammo, shots, nextShot, ticks>>
    /\ UNCHANGED probe

SpawnEnemy(dir) ==
    /\ started
    /\ enemies' = SpawnedEnemies(enemies, nextEnemy + 1, dir)
    /\ nextEnemy' = nextEnemy + 1
    /\ UNCHANGED <<started, framePending, gameOver, player, playerHitbox, direction,
                   weapon, weaponHitbox, ammo, shots, nextShot, ticks>>
    /\ UNCHANGED probe

\* keyup on an arrow key: Player.changeDirection, then adjustWeapon
ChangeDirectionMovesBody(dir) ==
    /\ direction' = dir
    /\ player' = [player EXCEPT !.x = WeaponRect(player, dir).x,
                                !.y = WeaponRect(player, dir).y]
    /\ weapon' = WeaponRect(player', dir)
    /\ weaponHitbox' = WeaponRect(player', dir)
    /\ UNCHANGED <<started, framePending, gameOver, enemies, playerHitbox,
                   ammo, shots, nextEnemy, nextShot, ticks>>
    /\ UNCHANGED probe

ChangeDirection(dir) ==
    /\ direction' = dir
    /\ weapon' = WeaponRect(player, dir)
    /\ weaponHitbox' = WeaponRect(player, dir)
    /\ UNCHANGED <<started, framePending, gameOver, enemies, player, playerHitbox,
                   ammo, shots, nextEnemy, nextShot, ticks>>
    /\ UNCHANGED probe

\* The guard of PlayerWeapon.fire: `if (this._ammo <= 0) return`
FireReturnsEarlyBelowZero(a) == a < 0
FireReturnsEarly(a) == a <= 0

\* PlayerWeapon.fire past its guard: the new collection and the new ammo
FiredShotsPushed(S, id, w, dir) == Append(S, NewShot(id, w.x, w.y, dir))
FiredShots(S, id, w, dir) == Unshift(S, NewShot(id, w.x, w.y, dir))

FiredAmmoTwice(a) == a - 2
FiredAmmo(a) == a - 1

\* keyup on the space bar: PlayerWeapon.fire(this._direction)
Fire ==
    /\ IF FireReturnsEarly(ammo)
       THEN UNCHANGED <<shots, ammo, nextShot>>
       ELSE /\ shots' = FiredShots(shots, nextShot + 1, weapon, direction)
            /\ ammo' = FiredAmmo(ammo)
            /\ nextShot' = nextShot + 1
    /\ UNCHANGED <<started, framePending, gameOver, enemies, player, playerHitbox,
                   direction, weapon, weaponHitbox, nextEnemy, ticks>>
    /\ UNCHANGED probe

\* PlayerWeapon.reload: the new ammo
ReloadedAmmoWhenNotFull(a) == IF a >= FullAmmo THEN a ELSE FullAmmo
ReloadedAmmo(a) == IF a > 0 THEN a ELSE FullAmmo

\* keyup on "r": PlayerWeapon.reload
Reload ==
    /\ ammo' = ReloadedAmmo(ammo)
    /\ UNCHANGED <<started, framePending, gameOver, enemies, player, playerHitbox,
                   direction, weapon, weaponHitbox, shots, nextEnemy, nextShot, ticks>>
    /\ UNCHANGED probe

(* ------------------------- specifications ------------------------------ *)
\* new SpaceGame({canvas}): the Player is centred, faces Up, and its
\* constructor has already run handleDirectionChange
PlayerRect ==
    Box((Px(CanvasW) - Px(PlayerW)) \div 2, (Px(CanvasH) - Px(PlayerH)) \div 2,
        Px(PlayerW), Px(PlayerH))

GameInit ==
    /\ started = FALSE
    /\ framePending = FALSE
    /\ gameOver = FALSE
    /\ enemies = <<>>
    /\ player = PlayerRect
    /\ playerHitbox = PlayerRect
    /\ direction = "Up"
    /\ weapon = WeaponRect(PlayerRect, "Up")
    /\ weaponHitbox = WeaponRect(PlayerRect, "Up")
    /\ ammo = StartAmmo
    /\ shots = <<>>
    /\ nextEnemy = 0
    /\ nextShot = 0
    /\ ticks = 0

\* No call of collision outside the frame loop
NoProbe ==
    [a |-> Box(0, 0, 0, 0), b |-> Box(0, 0, 0, 0),
     called |-> FALSE, ab |-> FALSE, ba |-> FALSE]

Init == GameInit /\ probe = NoProbe

\* Every interleaving of the callbacks, within the budgets
Next ==
    \/ ticks < MaxTicks /\ Start
    \/ ticks < MaxTicks /\ AnimateRun
    \/ AnimateHalt
    \/ \E dir \in Directions : nextEnemy < MaxSpawns /\ SpawnEnemy(dir)
    \/ \E dir \in Directions : ChangeDirection(dir)
    \/ (ammo <= 0 \/ nextShot < MaxShots) /\ Fire
    \/ Reload

Spec == Init /\ [][Next]_vars

\* Runs long enough to empty the magazine and reload it: the player turns
\* between two sides only and adversaries come from one side only
FireTurns == {"Up", "Right"}
FireDirections == {"Down"}

NextFire ==
    \/ ticks < FireTicks /\ Start
    \/ ticks < FireTicks /\ AnimateRun
    \/ AnimateHalt
    \/ \E dir \in FireDirections : nextEnemy < FireSpawns /\ SpawnEnemy(dir)
    \/ \E dir \in FireTurns : ChangeDirection(dir)
    \/ (ammo <= 0 \/ nextShot < FireShots) /\ Fire
    \/ Reload

SpecFire == Init /\ [][NextFire]_vars

\* Runs long enough to fill the adversary collection; adversaries come from
\* one side only and the player does not shoot
CapDirections == {"Left"}

NextCap ==
    \/ ticks < CapTicks /\ Start
    \/ ticks < CapTicks /\ AnimateRun
    \/ AnimateHalt
    \/ \E dir \in CapDirections : nextEnemy < CapSpawns /\ SpawnEnemy(dir)
    \/ \E dir \in Directions : ChangeDirection(dir)

SpecCap == Init /\ [][NextCap]_vars

\* Runs in which up to three adversaries and two projectiles are alive in one
\* frame: the player turns between two sides and adversaries come from the top
PassTurns == {"Up", "Right"}
PassDirections == {"Down"}

NextPass ==
    \/ ticks < PassTicks /\ Start
    \/ ticks < PassTicks /\ AnimateRun
    \/ AnimateHalt
    \/ \E dir \in PassDirections : nextEnemy < PassSpawns /\ SpawnEnemy(dir)
    \/ \E dir \in PassTurns : ChangeDirection(dir)
    \/ (ammo <= 0 \/ nextShot < PassShots) /\ Fire
    \/ Reload

SpecPass == Init /\ [][NextPass]_vars

\* HitBox.collision on its own: two boxes with corners in 0..BoxMax and
\* sides in 1..BoxMax, and one call each way round
Boxes ==
    {Box(x, y, w, h) : x \in 0..BoxMax, y \in 0..BoxMax,
                       w \in 1..BoxMax, h \in 1..BoxMax}

InitBox ==
    /\ GameInit
    /\ probe \in {[a |-> A, b |-> B, called |-> FALSE, ab |-> FALSE, ba |-> FALSE] :
                    A \in Boxes, B \in Boxes}

Collide ==
    /\ ~probe.called
    /\ probe' = [probe EXCEPT !.called = TRUE,
                              !.ab = Collision(probe.a, probe.b),
                              !.ba = Collision(probe.b, probe.a)]
    /\ UNCHANGED <<started, framePending, gameOver, enemies, player, playerHitbox,
                   direction, weapon, weaponHitbox, ammo, shots, nextEnemy, nextShot,
                   ticks>>

NextBox == Collide

SpecBox == InitBox /\ [][NextBox]_vars

(* ------------------------------ claims --------------------------------- *)
\* A step in which animate() ran draw() and update() (start() included)
TickStep == ticks' = ticks + 1

\* A step of the spawn timer
SpawnStep == nextEnemy' = nextEnemy + 1

\* Some adversary of E overlaps the actor's body or the weapon
Threatens(E, body, gun) ==
    \E i \in 1..Len(E) :
        Collision(body, E[i].hitbox) \/ Collision(gun, E[i].hitbox)

\* Every object of `new` that was in `old` is as it was there
Frozen(old, new) ==
    \A i \in 1..Len(new) : \A j \in 1..Len(old) :
        new[i].id = old[j].id => new[i] = old[j]

\* C1: in every reachable state the weapon's ammo is an integer between 0 and 3.
C1_AmmoInRange == ammo \in 0..3

\* C1 witness: the magazine was emptied by three shots and reloaded, with a
\* spawn and frames in between.
C1_Witness == ammo = 3 /\ nextShot = 3 /\ nextEnemy = 1 /\ ticks = 2

\* C2: the adversary collection never holds more than 20 entries, also when
\* spawn events fire after GameOver.
C2_AtMostTwenty == Len(enemies) <= 20

\* C2 witness: the game is over, more than 20 adversaries have been spawned
\* and the collection is as long as the code lets it get.
C2_Witness == gameOver /\ nextEnemy > 20 /\ Len(enemies) = EnemyCap - 1

\* C3 (as claimed): with no projectile ever fired, each of the first 20 spawn
\* events keeps every earlier adversary, so after n <= 20 spawns the
\* collection holds all n of them, newest first.
C3_FirstTwentyKept ==
    (nextEnemy <= 20 /\ nextShot = 0) =>
        /\ Len(enemies) = nextEnemy
        /\ \A i \in 1..Len(enemies) : enemies[i].id = nextEnemy + 1 - i

\* C4: once GameOver is true it stays true, no later step runs draw() and
\* update(), and no projectile or adversary that stays in its collection
\* changes.
C4_GameOverIsTerminal ==
    [][gameOver =>
         /\ gameOver'
         /\ ticks' = ticks
         /\ Frozen(shots, shots')
         /\ Frozen(enemies, enemies')]_vars

\* C4 witness: the game is over and the frame callback that saw it has
\* returned without requesting another frame.
C4_Witness == gameOver /\ ~framePending /\ started

\* C5 (as claimed): when a frame's collision passes start with some adversary
\* overlapping the actor's body or the weapon, GameOver is true when the frame
\* ends.
C5_OverlapAtPassStartEndsGame ==
    [][(TickStep /\ Threatens(MovedEnemies, playerHitbox, weaponHitbox))
         => gameOver']_vars

\* C5 (amended): when a frame's collision passes run and some adversary that
\* the projectile pass leaves in the collection overlaps the actor's body or
\* the weapon, GameOver is true when the frame ends.
C5_OverlapAfterShotPassEndsGame ==
    [][(TickStep /\ Threatens(enemies', playerHitbox', weaponHitbox'))
         => gameOver']_vars

\* C5 witness: a frame has just ended the game on an adversary that overlaps
\* the body and not the weapon.
C5_Witness ==
    /\ gameOver /\ framePending
    /\ \E i \in 1..Len(enemies) :
          /\ Collision(playerHitbox, enemies[i].hitbox)
          /\ ~Collision(weaponHitbox, enemies[i].hitbox)

\* C6: a frame whose projectile pass meets exactly one projectile and one
\* adversary, overlapping, removes both and leaves GameOver as it was.
C6_OneShotOneEnemy ==
    [][(/\ TickStep
        /\ Len(MovedShots) = 1
        /\ Len(MovedEnemies) = 1
        /\ Collision(MovedShots[1].hitbox, MovedEnemies[1].hitbox))
         => (shots' = <<>> /\ enemies' = <<>> /\ gameOver' = gameOver)]_vars

\* C6 witness: the only projectile fired and the only adversary spawned are
\* both gone and the game goes on.
C6_Witness ==
    /\ nextShot = 1 /\ nextEnemy = 1
    /\ shots = <<>> /\ enemies = <<>>
    /\ ~gameOver /\ framePending

\* C7: fire() with ammo 0 changes nothing: ammo stays 0, the projectile
\* collection and the rest of the simulation state are as before.
C7_FireWhenEmptyIsNoOp ==
    [][(Fire /\ ammo = 0) => UNCHANGED vars]_vars

\* C7 witness: the magazine is empty after three shots, the state fire()
\* leaves as it is.
C7_Witness == ammo = 0 /\ nextShot = 3 /\ Len(shots) = 3 /\ ENABLED Fire

\* C8: reload() sets ammo to 3 when it is exactly 0 and leaves it otherwise;
\* the projectiles, the weapon geometry and the facing direction are unchanged.
C8_ReloadOnlyWhenEmpty ==
    [][Reload =>
         /\ ammo' = (IF ammo = 0 THEN 3 ELSE ammo)
         /\ UNCHANGED <<shots, weapon, weaponHitbox, direction>>]_vars

\* C8 witness: a full magazine after three shots, with the three projectiles
\* still there: reload() has run on an empty magazine.
C8_Witness == ammo = 3 /\ nextShot = 3 /\ Len(shots) = 3

\* C9: fire() with ammo > 0 puts one new projectile at the head of the
\* collection, at the weapon's position and with the actor's direction, leaves
\* the earlier projectiles and their order as they were, and takes one from
\* ammo.
C9_FirePrepends ==
    [][(Fire /\ ammo > 0) =>
         /\ Len(shots') = Len(shots) + 1
         /\ Tail(shots') = shots
         /\ shots'[1].x = weapon.x
         /\ shots'[1].y = weapon.y
         /\ shots'[1].direction = direction
         /\ \A i \in 1..Len(shots) : shots'[1].id # shots[i].id
         /\ ammo' = ammo - 1]_vars

\* C9 witness: a projectile just fired, still at the weapon's position, ahead
\* of an earlier one that has moved on.
C9_Witness ==
    /\ Len(shots) >= 2
    /\ shots[1].id = nextShot
    /\ shots[1].x = weapon.x /\ shots[1].y = weapon.y
    /\ shots[1].direction = direction
    /\ shots[2].id < shots[1].id
    /\ <<shots[2].x, shots[2].y>> # <<shots[1].x, shots[1].y>>

\* C10: in GameOver the spawn timer is still enabled, and each of its events
\* puts a new adversary at the head of the collection, evicting the oldest by
\* the cap rule, while no frame runs.
C10_SpawnsAfterGameOver ==
    /\ [](gameOver => \A dir \in Directions : ENABLED SpawnEnemy(dir))
    /\ [][(gameOver /\ SpawnStep) =>
            /\ enemies'[1].id = nextEnemy'
            /\ enemies'[1].x = 0 /\ enemies'[1].y = 0
            /\ \/ Tail(enemies') = enemies
               \/ Tail(enemies') = Pop(enemies)
            /\ ticks' = ticks]_vars

\* C10 witness: the frame loop has halted on GameOver and the newest
\* adversary has never been drawn, after evictions.
C10_Witness ==
    /\ gameOver /\ ~framePending
    /\ nextEnemy > EnemyCap
    /\ enemies[1].id = nextEnemy
    /\ enemies[1].hitbox = Box(0, 0, Px(EnemySize), Px(EnemySize))

Min(m, n) == IF m < n THEN m ELSE n
Max(m, n) == IF m > n THEN m ELSE n

\* The open intervals (a.x, a.x + a.w) and (b.x, b.x + b.w) meet, and so do
\* the two on y
StrictOverlap(a, b) ==
    /\ Max(a.x, b.x) < Min(a.x + a.w, b.x + b.w)
    /\ Max(a.y, b.y) < Min(a.y + a.h, b.y + b.h)

\* One box ends where the other begins, on x or on y
SharesEdge(a, b) ==
    \/ a.x + a.w = b.x \/ b.x + b.w = a.x
    \/ a.y + a.h = b.y \/ b.y + b.h = a.y

\* C11: collision(A, B) is true exactly when A and B overlap strictly on both
\* axes; it gives the same answer both ways round, and boxes that only share
\* an edge do not collide.
C11_StrictOverlap ==
    probe.called =>
        /\ probe.ab = ( /\ probe.a.x < probe.b.x + probe.b.w
                        /\ probe.a.x + probe.a.w > probe.b.x
                        /\ probe.a.y < probe.b.y + probe.b.h
                        /\ probe.a.y + probe.a.h > probe.b.y )
        /\ probe.ab = StrictOverlap(probe.a, probe.b)
        /\ probe.ab = probe.ba
        /\ SharesEdge(probe.a, probe.b) => ~probe.ab

\* C11 witness: a call on two boxes side by side, B starting where A ends,
\* level with each other: no collision either way.
C11_Witness ==
    /\ probe.called
    /\ probe.a.x + probe.a.w = probe.b.x
    /\ probe.a.y = probe.b.y /\ probe.a.h = probe.b.h
    /\ ~probe.ab /\ ~probe.ba

\* The displacement of n half-pixels in direction dir
Step(dir, n) ==
    CASE dir = "Up" -> <<0, 0 - n>>
      [] dir = "Down" -> <<0, n>>
      [] dir = "Left" -> <<0 - n, 0>>
      [] dir = "Right" -> <<n, 0>>

\* Across a step, every object of `old` still in `new` keeps its direction
\* and moves by n pixels along it in a frame, and not at all otherwise
MovesOnlyInFrames(old, new, n) ==
    \A i \in 1..Len(old) : \A j \in 1..Len(new) :
        new[j].id = old[i].id =>
            /\ new[j].direction = old[i].direction
            /\ <<new[j].x - old[i].x, new[j].y - old[i].y>> =
                   (IF TickStep THEN Step(old[i].direction, Px(n)) ELSE <<0, 0>>)

\* C12: every update of a projectile moves it by exactly 3 units along the
\* direction it was fired with and leaves its other coordinate alone; no
\* direction change of the actor (and no other command) alters its direction
\* or its position.
C12_ShotMovesThree == [][MovesOnlyInFrames(shots, shots', 3)]_vars

\* C12 witness: a projectile fired upwards has made one step of 3 up from the
\* muzzle while the actor now faces left.
C12_Witness ==
    /\ direction = "Left"
    /\ \E i \in 1..Len(shots) :
          /\ shots[i].direction = "Up"
          /\ shots[i].x = WeaponRect(player, "Up").x
          /\ shots[i].y = WeaponRect(player, "Up").y - Px(3)

\* C13: an adversary never changes direction; each frame it stays in the
\* collection moves it by exactly 1 unit along its direction, the other
\* coordinate unchanged, and spawn events and player commands do not move it.
C13_EnemyMovesOne == [][MovesOnlyInFrames(enemies, enemies', 1)]_vars

\* C13 witness: an adversary heading down has been through two frames and is
\* 2 units below where it was created, x unchanged.
C13_Witness ==
    \E i \in 1..Len(enemies) :
        /\ enemies[i].direction = "Down"
        /\ enemies[i].x = 0
        /\ enemies[i].y = Px(2)

\* C14: the actor's body and its hit box are the 60 x 60 square centred in
\* the play field, in every reachable state.
C14_ActorFixed ==
    /\ player.w = Px(60) /\ player.h = Px(60)
    /\ 2 * player.x + player.w = Px(CanvasW)
    /\ 2 * player.y + player.h = Px(CanvasH)
    /\ playerHitbox = player

\* C14 witness: frames, a turn, a shot, a spawn and a lost game have all
\* happened.
C14_Witness ==
    /\ ticks >= 2 /\ nextShot >= 1 /\ nextEnemy >= 1
    /\ direction # "Up" /\ gameOver

\* C18: a frame moves the projectiles and the adversaries, then runs the
\* projectile pass, then the two actor passes on what that pass left: GameOver
\* after the frame is GameOver before it or an overlap of the body or the
\* weapon with an adversary still in the collection, so an adversary the
\* projectile pass removed does not end the game in that frame.
C18_RemovedCannotEndGame ==
    [][TickStep =>
         (gameOver' = (gameOver \/ Threatens(enemies', playerHitbox, weaponHitbox)))]_vars

\* C18 witness: facing up, where an adversary coming down is drawn over the
\* weapon, the only adversary has been removed by the only projectile and the
\* game goes on.
C18_Witness ==
    /\ direction = "Up" /\ ticks = 2
    /\ Collision(weaponHitbox, EnemyDraw(NewEnemy(1, "Down")).hitbox)
    /\ nextEnemy = 1 /\ enemies = <<>>
    /\ nextShot = 1 /\ shots = <<>>
    /\ ~gameOver

\* C19: in every state the weapon rectangle touches the body along the edge
\* of the facing side and lies outside it, reaches 30 units away from that
\* edge, is 15 units thick and is centred on the body's other axis; the
\* weapon hit box is this rectangle and does not collide with the body hit box.
C19_WeaponGeometry ==
    LET b == playerHitbox
        g == weapon
        long == Px(30)
        thick == Px(15)
    IN /\ weaponHitbox = g
       /\ ~Collision(weaponHitbox, playerHitbox)
       /\ ~Collision(playerHitbox, weaponHitbox)
       /\ direction = "Up" =>
            /\ g.y + g.h = b.y /\ g.h = long
            /\ g.w = thick /\ 2 * g.x + g.w = 2 * b.x + b.w
       /\ direction = "Down" =>
            /\ g.y = b.y + b.h /\ g.h = long
            /\ g.w = thick /\ 2 * g.x + g.w = 2 * b.x + b.w
       /\ direction = "Left" =>
            /\ g.x + g.w = b.x /\ g.w = long
            /\ g.h = thick /\ 2 * g.y + g.h = 2 * b.y + b.h
       /\ direction = "Right" =>
            /\ g.x = b.x + b.w /\ g.w = long
            /\ g.h = thick /\ 2 * g.y + g.h = 2 * b.y + b.h

\* C19 witness: after a turn downwards the weapon hangs from the body's
\* lower edge.
C19_Witness ==
    /\ direction = "Down"
    /\ weapon.y = player.y + player.h
    /\ weapon.h = Px(30)

\* The hit box of object o of `new` is where draw put it before the frame
\* moved o by n units: at drawn(o taken one step back)
Lags(o, drawn, n) ==
    LET d == Step(o.direction, Px(n))
    IN /\ o.hitbox = drawn.hitbox
       /\ drawn.x = o.x - d[1]
       /\ drawn.y = o.y - d[2]

\* C20: after a frame every projectile and every adversary carries the hit box
\* that draw gave it at the position it had before the frame moved it: the
\* hit box is one step (3 units, 1 unit) behind the position.
C20_HitboxLagsOneStep ==
    [][TickStep =>
         /\ \A j \in 1..Len(shots') : \E i \in 1..Len(shots) :
               /\ shots[i].id = shots'[j].id
               /\ Lags(shots'[j], ShotDraw(shots[i]), 3)
         /\ \A j \in 1..Len(enemies') : \E i \in 1..Len(enemies) :
               /\ enemies[i].id = enemies'[j].id
               /\ Lags(enemies'[j], EnemyDraw(enemies[i]), 1)]_vars

\* C20 witness: an adversary heading right is at x = 2 with the hit box drawn
\* for x = 1, and a projectile fired downwards is 6 below the muzzle with the
\* hit box drawn 3 below it.
C20_Witness ==
    /\ \E i \in 1..Len(enemies) :
          /\ enemies[i].direction = "Right" /\ enemies[i].x = Px(2)
          /\ enemies[i].hitbox = EnemyDraw([enemies[i] EXCEPT !.x = Px(1)]).hitbox
    /\ \E i \in 1..Len(shots) :
          /\ shots[i].direction = "Down"
          /\ shots[i].y = WeaponRect(player, "Down").y + Px(6)
          /\ shots[i].hitbox = ShotDraw([shots[i] EXCEPT !.y = @ - Px(3)]).hitbox

\* C15 (as claimed): the projectile pass of a frame removes as many
\* adversaries as projectiles, however many adversaries overlap one projectile.
C15_EqualRemovals ==
    [][TickStep =>
         Len(shots) - Len(shots') = Len(enemies) - Len(enemies')]_vars

\* C16 (as claimed): when the projectile pass of a frame has ended, no
\* projectile left in the collection overlaps an adversary left in the
\* collection.
C16_NoOverlapLeft ==
    [][TickStep =>
         \A i \in 1..Len(shots') : \A j \in 1..Len(enemies') :
             ~Collision(shots'[i].hitbox, enemies'[j].hitbox)]_vars

\* Projectile s overlaps no adversary of E
Clear(s, E) == \A j \in 1..Len(E) : ~Collision(s.hitbox, E[j].hitbox)

\* C17 (as claimed): a projectile that overlaps no adversary when the
\* projectile pass of a frame starts is in the collection after the pass, and
\* two such projectiles are there in the order they had before.
C17_ClearShotsStay ==
    [][TickStep =>
         LET S == MovedShots
             E == MovedEnemies
         IN /\ \A i \in 1..Len(S) :
                  Clear(S[i], E) => \E a \in 1..Len(shots') : shots'[a].id = S[i].id
            /\ \A i \in 1..Len(S) : \A k \in 1..Len(S) :
                  (i < k /\ Clear(S[i], E) /\ Clear(S[k], E)) =>
                      \E a \in 1..Len(shots') : \E b \in 1..Len(shots') :
                          /\ a < b
                          /\ shots'[a].id = S[i].id
                          /\ shots'[b].id = S[k].id]_vars

=============================================================================
